---- MODULE Spec2Model ----
(***************************************************************************)
(* Register-level model of the Allwinner sun6i/sun8i SPI controller        *)
(* (hw/ssi/allwinner_sun6i_spi.c).                                         *)
(*                                                                         *)
(* A uint32_t is modelled as the set of its set bit positions (a subset of *)
(* 0..31): a & b is a \cap b, a | b is a \cup b, a & ~b is a \ b. This     *)
(* keeps bit 31 exact, which a bounded integer cannot.                     *)
(*                                                                         *)
(* The device state AWSpiState is the record s; one action models one      *)
(* whole handler call (spi_write, spi_read, allwinner_sun6i_spi_reset).    *)
(*                                                                         *)
(* The variable peer is the second controller instance where two are      *)
(* explored (SpecTwo); elsewhere it is NoPeer.                             *)
(* The variable wire is the history of the words the transmit-data        *)
(* register accepted and of the words handed to the peripheral            *)
(* (SpecOrder). The variable axp is the AXP221 power-management chip      *)
(* (hw/misc/axp221.c) on its I2C bus (SpecAxp); elsewhere it is NoAxp.    *)
(*                                                                         *)
(* The specifications share the handlers:                                  *)
(*   Spec      the FIFOs, the transfer engine and the control registers,   *)
(*             at reduced FIFO depths (SmallDepth, LargeDepth) with two    *)
(*             distinct data words, every interleaving;                    *)
(*   SpecRegs  the register file: every stored register written and read;  *)
(*   SpecWide  the FIFO depths of the two chip variants (64 and 128) with  *)
(*             a single data word;                                         *)
(*   SpecBurst the burst-count field, including values above bit 23;       *)
(*   SpecSnap  saving the device and loading the snapshot;                 *)
(*   SpecTwo   two controller instances side by side;                      *)
(*   SpecOrder the order of the words handed to the peripheral;            *)
(*   SpecAxp   the AXP221 register file behind its I2C callbacks.          *)
(* The transfer loop works in chunks of TraceLen words (its trace buffer); *)
(* a burst of the 128-word variant spans two chunks.                       *)
(***************************************************************************)
EXTENDS Integers, Sequences, FiniteSets, TLC

VARIABLES s, last, nplain, peer, wire, axp

vars == <<s, last, nplain, peer, wire, axp>>

(***************************************************************************)
(* Bounds of the exploration.                                              *)
(***************************************************************************)
SmallDepth == 1
LargeDepth == 2
MaxPlainWrites == 1
MaxHistory == 4
MaxAxpSteps == 4

(***************************************************************************)
(* uint32_t as a bit set.                                                  *)
(***************************************************************************)
U32 == 0..31

BIT(n) == {n}

GENMASK(h, l) == l..h

RECURSIVE Bits(_)
Bits(n) ==
    IF n = 0 THEN {}
    ELSE LET b == CHOOSE k \in 0..30 : 2^k <= n /\ n < 2^(k + 1)
         IN  {b} \cup Bits(n - 2^b)

RECURSIVE ToNat(_)
ToNat(w) ==
    IF w = {} THEN 0
    ELSE LET b == CHOOSE k \in w : TRUE
         IN  2^b + ToNat(w \ {b})

Shl(w, k) == {b + k : b \in w} \cap U32

Zero == {}

(***************************************************************************)
(* Register offsets and bits.                                              *)
(***************************************************************************)
SUN6I_GBL_CTL_REG == \H04
SUN6I_TFR_CTL_REG == \H08
SUN6I_TFR_CTL_XCH == BIT(31)
SUN6I_INT_CTL_REG == \H10
SUN6I_INT_STA_REG == \H14
SUN6I_FIFO_CTL_REG == \H18
SUN6I_FIFO_CTL_RF_RST == BIT(15)
SUN6I_FIFO_CTL_TF_RST == BIT(31)
SUN6I_FIFO_STA_REG == \H1c
SUN6I_FIFO_STA_RF_CNT_MASK == GENMASK(7, 0)
SUN6I_FIFO_STA_TF_CNT_MASK == GENMASK(23, 16)
SUN6I_WAIT_CLK_REG == \H20
SUN6I_CLK_CTL_REG == \H24
SUN6I_BURST_CNT_REG == \H30
SUN6I_XMIT_CNT_REG == \H34
SUN6I_BURST_CTL_CNT_REG == \H38
SUN6I_NDMA_MODE_CTL == \H88
SUN6I_TXDATA_REG == \H200
SUN6I_RXDATA_REG == \H300

(***************************************************************************)
(* Fifo32 (include/qemu/fifo32.h is not part of the sources at hand): a    *)
(* bounded queue of words, capacity fixed at creation. A push on a full    *)
(* queue drops the word, a pop on an empty queue yields 0.                 *)
(***************************************************************************)
fifo32_create(capacity) == [data |-> <<>>, capacity |-> capacity]

fifo32_num_used(f) == Len(f.data)

fifo32_is_empty(f) == Len(f.data) = 0

fifo32_is_full(f) == Len(f.data) = f.capacity

fifo32_push_unchecked(f, w) == [f EXCEPT !.data = Append(@, w)]

fifo32_push(f, w) ==
    IF fifo32_is_full(f) THEN f ELSE [f EXCEPT !.data = Append(@, w)]

fifo32_pop_value(f) == IF fifo32_is_empty(f) THEN Zero ELSE Head(f.data)

fifo32_pop_rest(f) ==
    IF fifo32_is_empty(f) THEN f ELSE [f EXCEPT !.data = Tail(@)]

fifo32_reset(f) == [f EXCEPT !.data = <<>>]

(***************************************************************************)
(* Device construction and reset.                                          *)
(***************************************************************************)
SUN6I_FIFO_DEPTH == 128
SUN8I_FIFO_DEPTH == 64

FifoDepths == {SUN6I_FIFO_DEPTH, SUN8I_FIFO_DEPTH}

ReducedDepths == {SmallDepth, LargeDepth}

allwinner_sun6i_spi_realize_deeper(fifo_size) ==
    [ fifo_size |-> fifo_size,
      tx_fifo |-> fifo32_create(fifo_size + 1),
      rx_fifo |-> fifo32_create(fifo_size + 1),
      gcr |-> Zero, tcr |-> Zero, ier |-> Zero, isr |-> Zero, fcr |-> Zero,
      wcr |-> Zero, ccr |-> Zero, mbr |-> Zero, mtc |-> Zero, bcc |-> Zero,
      ndma_mode_ctl |-> Zero ]

allwinner_sun6i_spi_realize(fifo_size) ==
    [ fifo_size |-> fifo_size,
      tx_fifo |-> fifo32_create(fifo_size),
      rx_fifo |-> fifo32_create(fifo_size),
      gcr |-> Zero, tcr |-> Zero, ier |-> Zero, isr |-> Zero, fcr |-> Zero,
      wcr |-> Zero, ccr |-> Zero, mbr |-> Zero, mtc |-> Zero, bcc |-> Zero,
      ndma_mode_ctl |-> Zero ]

txfifo_reset(st) == [st EXCEPT !.tx_fifo = fifo32_reset(@)]

rxfifo_reset(st) == [st EXCEPT !.rx_fifo = fifo32_reset(@)]

ResetGcr == Bits(\H80)
ResetTcr == Bits(\H87)
ResetIsr == Bits(\H32)
ResetFcr == Bits(\H00400001)
ResetCcr == Bits(\H02)
ResetNdmaModeCtl == Bits(\Ha5)

spi_reset_state_stale(st) ==
    txfifo_reset(rxfifo_reset(
        [st EXCEPT !.gcr = ResetGcr,
                   !.tcr = ResetTcr,
                   !.isr = IF fifo32_is_empty(st.tx_fifo)
                           THEN ResetIsr
                           ELSE ResetIsr \ BIT(5),
                   !.fcr = ResetFcr,
                   !.ccr = ResetCcr,
                   !.ndma_mode_ctl = ResetNdmaModeCtl]))

spi_reset_state(st) ==
    txfifo_reset(rxfifo_reset(
        [st EXCEPT !.gcr = ResetGcr,
                   !.tcr = ResetTcr,
                   !.isr = ResetIsr,
                   !.fcr = ResetFcr,
                   !.ccr = ResetCcr,
                   !.ndma_mode_ctl = ResetNdmaModeCtl]))

(***************************************************************************)
(* The snapshot: the fields vmstate_allwinner_sun6i_spi lists. A FIFO is   *)
(* saved as its words in order and loaded into the FIFO of the receiving   *)
(* instance, whose capacity stays as constructed.                          *)
(***************************************************************************)
fifo32_save(f) == f.data

fifo32_load(f, data) == [f EXCEPT !.data = data]

vmstate_save(st) ==
    [ tx_fifo |-> fifo32_save(st.tx_fifo),
      rx_fifo |-> fifo32_save(st.rx_fifo),
      gcr |-> st.gcr, tcr |-> st.tcr, ier |-> st.ier, isr |-> st.isr,
      fcr |-> st.fcr, wcr |-> st.wcr, ccr |-> st.ccr, mbr |-> st.mbr,
      mtc |-> st.mtc, bcc |-> st.bcc, ndma_mode_ctl |-> st.ndma_mode_ctl ]

vmstate_load_skip(dst, snap) ==
    [dst EXCEPT !.tx_fifo = fifo32_load(@, snap.tx_fifo),
                !.rx_fifo = fifo32_load(@, snap.rx_fifo),
                !.gcr = snap.gcr, !.tcr = snap.tcr, !.ier = snap.ier,
                !.isr = snap.isr, !.fcr = snap.fcr, !.wcr = snap.wcr,
                !.ccr = snap.ccr, !.mbr = snap.mbr, !.mtc = snap.mtc,
                !.bcc = snap.bcc]

vmstate_load(dst, snap) ==
    [dst EXCEPT !.tx_fifo = fifo32_load(@, snap.tx_fifo),
                !.rx_fifo = fifo32_load(@, snap.rx_fifo),
                !.gcr = snap.gcr, !.tcr = snap.tcr, !.ier = snap.ier,
                !.isr = snap.isr, !.fcr = snap.fcr, !.wcr = snap.wcr,
                !.ccr = snap.ccr, !.mbr = snap.mbr, !.mtc = snap.mtc,
                !.bcc = snap.bcc, !.ndma_mode_ctl = snap.ndma_mode_ctl]

(***************************************************************************)
(* The transfer engine. x is the state of one call: the device state, the  *)
(* words handed to ssi_transfer so far (sent), the replies it returned     *)
(* (rcvd) and whether the loop ever found the transmit FIFO empty.         *)
(* replies[k] is what the attached peripheral answers to the k-th          *)
(* exchange of the call. (The test y = y in the loops is always true: it   *)
(* makes TLC evaluate one iteration before it enters the next.)            *)
(***************************************************************************)
XferStart(st) == [s |-> st, sent |-> <<>>, rcvd |-> <<>>, starved |-> FALSE]

XferWord_loopback(x, replies) ==
    LET has == ~fifo32_is_empty(x.s.tx_fifo)
        tx  == IF has THEN fifo32_pop_value(x.s.tx_fifo) ELSE Zero
        s1  == IF has THEN [x.s EXCEPT !.tx_fifo = fifo32_pop_rest(@)] ELSE x.s
        rx  == replies[Len(x.sent) + 1]
        s2  == IF ~fifo32_is_full(s1.rx_fifo)
               THEN [s1 EXCEPT !.rx_fifo = fifo32_push(@, tx)]
               ELSE s1
    IN  [s |-> s2, sent |-> Append(x.sent, tx), rcvd |-> Append(x.rcvd, rx),
         starved |-> x.starved \/ ~has]

XferWord_overwrite(x, replies) ==
    LET has == ~fifo32_is_empty(x.s.tx_fifo)
        tx  == IF has THEN fifo32_pop_value(x.s.tx_fifo) ELSE Zero
        s1  == IF has THEN [x.s EXCEPT !.tx_fifo = fifo32_pop_rest(@)] ELSE x.s
        rx  == replies[Len(x.sent) + 1]
        s2  == IF ~fifo32_is_full(s1.rx_fifo)
               THEN [s1 EXCEPT !.rx_fifo = fifo32_push(@, rx)]
               ELSE [s1 EXCEPT !.rx_fifo = fifo32_push(fifo32_pop_rest(@), rx)]
    IN  [s |-> s2, sent |-> Append(x.sent, tx), rcvd |-> Append(x.rcvd, rx),
         starved |-> x.starved \/ ~has]

XferWord_stall(x, replies) ==
    IF fifo32_is_full(x.s.rx_fifo)
    THEN x
    ELSE LET has == ~fifo32_is_empty(x.s.tx_fifo)
             tx  == IF has THEN fifo32_pop_value(x.s.tx_fifo) ELSE Zero
             s1  == IF has THEN [x.s EXCEPT !.tx_fifo = fifo32_pop_rest(@)]
                    ELSE x.s
             rx  == replies[Len(x.sent) + 1]
             s2  == [s1 EXCEPT !.rx_fifo = fifo32_push(@, rx)]
         IN  [s |-> s2, sent |-> Append(x.sent, tx),
              rcvd |-> Append(x.rcvd, rx), starved |-> x.starved \/ ~has]

XferWord_lifo(x, replies) ==
    LET has == ~fifo32_is_empty(x.s.tx_fifo)
        n   == Len(x.s.tx_fifo.data)
        tx  == IF has THEN x.s.tx_fifo.data[n] ELSE Zero
        s1  == IF has
               THEN [x.s EXCEPT !.tx_fifo.data = SubSeq(@, 1, n - 1)]
               ELSE x.s
        rx  == replies[Len(x.sent) + 1]
        s2  == IF ~fifo32_is_full(s1.rx_fifo)
               THEN [s1 EXCEPT !.rx_fifo = fifo32_push(@, rx)]
               ELSE s1
    IN  [s |-> s2, sent |-> Append(x.sent, tx), rcvd |-> Append(x.rcvd, rx),
         starved |-> x.starved \/ ~has]

XferWord(x, replies) ==
    LET has == ~fifo32_is_empty(x.s.tx_fifo)
        tx  == IF has THEN fifo32_pop_value(x.s.tx_fifo) ELSE Zero
        s1  == IF has THEN [x.s EXCEPT !.tx_fifo = fifo32_pop_rest(@)] ELSE x.s
        rx  == replies[Len(x.sent) + 1]
        s2  == IF ~fifo32_is_full(s1.rx_fifo)
               THEN [s1 EXCEPT !.rx_fifo = fifo32_push(@, rx)]
               ELSE s1
    IN  [s |-> s2, sent |-> Append(x.sent, tx), rcvd |-> Append(x.rcvd, rx),
         starved |-> x.starved \/ ~has]

(* ARRAY_SIZE(trace_tx) *)
TraceLen == 64

(* Iterations i .. n-1 of the for loop: the loop body applied in order.    *)
(* The range is split in halves, which composes the same steps in the same *)
(* order and keeps the depth of evaluation logarithmic in n. The test      *)
(* y = y is always true: it makes the intermediate state a value before    *)
(* the next steps use it.                                                  *)
RECURSIVE XferChunk(_, _, _, _)
XferChunk(x, i, n, replies) ==
    IF i >= n THEN x
    ELSE IF n - i = 1 THEN XferWord(x, replies)
    ELSE LET m == (i + n) \div 2
             y == XferChunk(x, i, m, replies)
         IN  IF y = y THEN XferChunk(y, m, n, replies) ELSE x

RECURSIVE XferBurst(_, _, _)
XferBurst(x, burst, replies) ==
    IF burst > 0
    THEN LET n == IF burst > TraceLen THEN TraceLen ELSE burst
             y == XferChunk(x, 0, n, replies)
         IN  IF y = y THEN XferBurst(y, burst - n, replies) ELSE x
    ELSE x

BurstMask_wide == Bits(\H1ffffff)

BurstMask == Bits(\Hffffff)

BurstLength_unclamped(st) == ToNat(st.mbr \cap BurstMask)

BurstLength_nozero(st) ==
    LET burst == ToNat(st.mbr \cap BurstMask)
    IN  IF fifo32_num_used(st.tx_fifo) # burst
        THEN fifo32_num_used(st.tx_fifo)
        ELSE burst

BurstLength(st) ==
    LET burst == ToNat(st.mbr \cap BurstMask)
    IN  IF burst = 0 THEN 0
        ELSE IF fifo32_num_used(st.tx_fifo) # burst
             THEN fifo32_num_used(st.tx_fifo)
             ELSE burst

allwinner_sun6i_spi_transfer(st, replies) ==
    XferBurst(XferStart(st), BurstLength(st), replies)

(***************************************************************************)
(* The bus-facing dispatcher: spi_write.                                   *)
(***************************************************************************)
spi_write_tcr_keep(st, value, replies) ==
    IF value \cap SUN6I_TFR_CTL_XCH # {}
    THEN LET x == allwinner_sun6i_spi_transfer(st, replies)
         IN  [x EXCEPT !.s.tcr = value]
    ELSE XferStart([st EXCEPT !.tcr = value])

spi_write_tcr_setisr(st, value, replies) ==
    IF value \cap SUN6I_TFR_CTL_XCH # {}
    THEN LET x == allwinner_sun6i_spi_transfer(st, replies)
         IN  [x EXCEPT !.s.tcr = value \ SUN6I_TFR_CTL_XCH,
                       !.s.isr = @ \cup BIT(12)]
    ELSE XferStart([st EXCEPT !.tcr = value])

spi_write_tcr(st, value, replies) ==
    IF value \cap SUN6I_TFR_CTL_XCH # {}
    THEN LET x == allwinner_sun6i_spi_transfer(st, replies)
         IN  [x EXCEPT !.s.tcr = value \ SUN6I_TFR_CTL_XCH]
    ELSE XferStart([st EXCEPT !.tcr = value])

spi_write_fcr_both(st, value) ==
    IF value \cap SUN6I_FIFO_CTL_TF_RST # {}
    THEN [txfifo_reset(rxfifo_reset(st)) EXCEPT
             !.fcr = value \ SUN6I_FIFO_CTL_TF_RST]
    ELSE IF value \cap SUN6I_FIFO_CTL_RF_RST # {}
         THEN [rxfifo_reset(st) EXCEPT !.fcr = value \ SUN6I_FIFO_CTL_RF_RST]
         ELSE [st EXCEPT !.fcr = value]

spi_write_fcr_rfkeep(st, value) ==
    IF value \cap SUN6I_FIFO_CTL_TF_RST # {}
    THEN [txfifo_reset(st) EXCEPT !.fcr = value \ SUN6I_FIFO_CTL_TF_RST]
    ELSE IF value \cap SUN6I_FIFO_CTL_RF_RST # {}
         THEN [rxfifo_reset(st) EXCEPT !.fcr = value]
         ELSE [st EXCEPT !.fcr = value]

spi_write_fcr(st, value) ==
    IF value \cap SUN6I_FIFO_CTL_TF_RST # {}
    THEN [txfifo_reset(st) EXCEPT !.fcr = value \ SUN6I_FIFO_CTL_TF_RST]
    ELSE IF value \cap SUN6I_FIFO_CTL_RF_RST # {}
         THEN [rxfifo_reset(st) EXCEPT !.fcr = value \ SUN6I_FIFO_CTL_RF_RST]
         ELSE [st EXCEPT !.fcr = value]

spi_write_txdata(st, value) == [st EXCEPT !.tx_fifo = fifo32_push(@, value)]

PlainRegs ==
    {SUN6I_GBL_CTL_REG, SUN6I_INT_CTL_REG, SUN6I_INT_STA_REG,
     SUN6I_WAIT_CLK_REG, SUN6I_CLK_CTL_REG, SUN6I_BURST_CNT_REG,
     SUN6I_XMIT_CNT_REG, SUN6I_BURST_CTL_CNT_REG, SUN6I_NDMA_MODE_CTL}

spi_write_stored_crossed(st, addr, value) ==
    CASE addr = SUN6I_GBL_CTL_REG -> [st EXCEPT !.gcr = value]
      [] addr = SUN6I_INT_CTL_REG -> [st EXCEPT !.ier = value]
      [] addr = SUN6I_INT_STA_REG -> [st EXCEPT !.isr = value]
      [] addr = SUN6I_WAIT_CLK_REG -> [st EXCEPT !.wcr = value]
      [] addr = SUN6I_CLK_CTL_REG -> [st EXCEPT !.ccr = value]
      [] addr = SUN6I_BURST_CNT_REG -> [st EXCEPT !.mbr = value]
      [] addr = SUN6I_XMIT_CNT_REG -> [st EXCEPT !.bcc = value]
      [] addr = SUN6I_BURST_CTL_CNT_REG -> [st EXCEPT !.bcc = value]
      [] addr = SUN6I_NDMA_MODE_CTL -> [st EXCEPT !.ndma_mode_ctl = value]

spi_write_stored(st, addr, value) ==
    CASE addr = SUN6I_GBL_CTL_REG -> [st EXCEPT !.gcr = value]
      [] addr = SUN6I_INT_CTL_REG -> [st EXCEPT !.ier = value]
      [] addr = SUN6I_INT_STA_REG -> [st EXCEPT !.isr = value]
      [] addr = SUN6I_WAIT_CLK_REG -> [st EXCEPT !.wcr = value]
      [] addr = SUN6I_CLK_CTL_REG -> [st EXCEPT !.ccr = value]
      [] addr = SUN6I_BURST_CNT_REG -> [st EXCEPT !.mbr = value]
      [] addr = SUN6I_XMIT_CNT_REG -> [st EXCEPT !.mtc = value]
      [] addr = SUN6I_BURST_CTL_CNT_REG -> [st EXCEPT !.bcc = value]
      [] addr = SUN6I_NDMA_MODE_CTL -> [st EXCEPT !.ndma_mode_ctl = value]

spi_write_switch_rxpush(st, addr, value, replies) ==
    CASE addr = SUN6I_TFR_CTL_REG -> spi_write_tcr(st, value, replies)
      [] addr = SUN6I_FIFO_CTL_REG -> XferStart(spi_write_fcr(st, value))
      [] addr \in PlainRegs -> XferStart(spi_write_stored(st, addr, value))
      [] addr = SUN6I_TXDATA_REG -> XferStart(spi_write_txdata(st, value))
      [] addr \in {SUN6I_RXDATA_REG, SUN6I_FIFO_STA_REG} ->
             XferStart([st EXCEPT !.rx_fifo = fifo32_push(@, value)])
      [] OTHER -> XferStart(st)

spi_write_switch(st, addr, value, replies) ==
    CASE addr = SUN6I_TFR_CTL_REG -> spi_write_tcr(st, value, replies)
      [] addr = SUN6I_FIFO_CTL_REG -> XferStart(spi_write_fcr(st, value))
      [] addr \in PlainRegs -> XferStart(spi_write_stored(st, addr, value))
      [] addr = SUN6I_TXDATA_REG -> XferStart(spi_write_txdata(st, value))
      [] addr \in {SUN6I_RXDATA_REG, SUN6I_FIFO_STA_REG} -> XferStart(st)
      [] OTHER -> XferStart(st)

(***************************************************************************)
(* The bus-facing dispatcher: spi_read. spi_read_ret is the value          *)
(* returned, spi_read_state the device state the call leaves.              *)
(***************************************************************************)
spi_read_fsr_byte(st) ==
    (Zero \cup Shl(Bits(fifo32_num_used(st.rx_fifo)), 0))
        \cup Shl(Bits(fifo32_num_used(st.tx_fifo)), 8)

spi_read_fsr(st) ==
    (Zero \cup Shl(Bits(fifo32_num_used(st.rx_fifo)), 0))
        \cup Shl(Bits(fifo32_num_used(st.tx_fifo)), 16)

spi_read_rxdata(st) ==
    IF fifo32_is_empty(st.rx_fifo) THEN Zero ELSE fifo32_pop_value(st.rx_fifo)

spi_read_ret(st, addr) ==
    CASE addr = SUN6I_GBL_CTL_REG -> st.gcr
      [] addr = SUN6I_TFR_CTL_REG -> st.tcr
      [] addr = SUN6I_INT_CTL_REG -> st.ier
      [] addr = SUN6I_INT_STA_REG -> st.isr
      [] addr = SUN6I_FIFO_CTL_REG -> st.fcr
      [] addr = SUN6I_FIFO_STA_REG -> spi_read_fsr(st)
      [] addr = SUN6I_WAIT_CLK_REG -> st.wcr
      [] addr = SUN6I_CLK_CTL_REG -> st.ccr
      [] addr = SUN6I_BURST_CNT_REG -> st.mbr
      [] addr = SUN6I_XMIT_CNT_REG -> st.mtc
      [] addr = SUN6I_BURST_CTL_CNT_REG -> st.bcc
      [] addr = SUN6I_NDMA_MODE_CTL -> st.ndma_mode_ctl
      [] addr = SUN6I_RXDATA_REG -> spi_read_rxdata(st)
      [] addr = SUN6I_TXDATA_REG -> Zero
      [] OTHER -> Zero

spi_read_state_peek(st, addr) == st

spi_read_state_txpop(st, addr) ==
    IF addr = SUN6I_RXDATA_REG /\ ~fifo32_is_empty(st.rx_fifo)
    THEN [st EXCEPT !.rx_fifo = fifo32_pop_rest(@)]
    ELSE IF addr = SUN6I_TXDATA_REG
         THEN [st EXCEPT !.tx_fifo = fifo32_pop_rest(@)]
         ELSE st

spi_read_state_clearisr(st, addr) ==
    IF addr = SUN6I_RXDATA_REG /\ ~fifo32_is_empty(st.rx_fifo)
    THEN [st EXCEPT !.rx_fifo = fifo32_pop_rest(@)]
    ELSE IF addr \in {SUN6I_INT_STA_REG, SUN6I_FIFO_STA_REG}
         THEN [st EXCEPT !.isr = Zero]
         ELSE st

spi_read_state(st, addr) ==
    IF addr = SUN6I_RXDATA_REG /\ ~fifo32_is_empty(st.rx_fifo)
    THEN [st EXCEPT !.rx_fifo = fifo32_pop_rest(@)]
    ELSE st

(***************************************************************************)
(* The handlers as actions. last records the most recent handler call:     *)
(* its kind, its arguments, the value a read returned, and what a burst    *)
(* exchanged with the peripheral.                                          *)
(***************************************************************************)
Call(op, addr, value, ret, x) ==
    [op |-> op, addr |-> addr, value |-> value, ret |-> ret,
     sent |-> x.sent, rcvd |-> x.rcvd, starved |-> x.starved]

spi_write(addr, value, replies) ==
    LET x == spi_write_switch(s, addr, value, replies)
    IN  /\ s' = x.s
        /\ last' = Call("write", addr, value, Zero, x)

spi_read(addr) ==
    /\ s' = spi_read_state(s, addr)
    /\ last' = Call("read", addr, Zero, spi_read_ret(s, addr), XferStart(s))

allwinner_sun6i_spi_reset ==
    /\ s' = spi_reset_state(s)
    /\ last' = Call("reset", 0, Zero, Zero, XferStart(s))

(* Save the device and load the snapshot into a newly realized and reset   *)
(* instance of the same variant, which takes the place of the device.      *)
vmstate_save_load ==
    LET dst == spi_reset_state(allwinner_sun6i_spi_realize(s.fifo_size))
    IN  /\ s' = vmstate_load(dst, vmstate_save(s))
        /\ last' = Call("migrate", 0, Zero, Zero, XferStart(s))

(***************************************************************************)
(* The guest and the attached peripheral: the inputs explored. nplain      *)
(* counts the guest's writes to the plainly stored registers.              *)
(***************************************************************************)
Words == {Bits(\H11), Bits(\H22)}

OneWord == {Bits(\H33)}

ControlRegs == {SUN6I_TFR_CTL_REG, SUN6I_FIFO_CTL_REG, SUN6I_BURST_CNT_REG}

StoredRegs == PlainRegs \cup ControlRegs

BadOffsets == {\H00, \H204}

PlainValues == {BIT(31) \cup Bits(\H10001), Bits(\H5a)}

TcrValues == {Bits(\H83), SUN6I_TFR_CTL_XCH \cup Bits(\H83)}

TcrStart == {SUN6I_TFR_CTL_XCH \cup Bits(\H83)}

FcrValues ==
    {Bits(\H10001),
     SUN6I_FIFO_CTL_TF_RST \cup Bits(\H10001),
     SUN6I_FIFO_CTL_RF_RST \cup Bits(\H10001),
     SUN6I_FIFO_CTL_TF_RST \cup SUN6I_FIFO_CTL_RF_RST \cup Bits(\H10001)}

MbrValues == {Bits(n) : n \in 0..LargeDepth} \cup {BIT(24)}

Replies(st, W) == [1..BurstLength(st) -> W]

GuestWritePlain ==
    /\ nplain < MaxPlainWrites
    /\ \E addr \in PlainRegs, value \in PlainValues : spi_write(addr, value, <<>>)
    /\ nplain' = nplain + 1
    /\ UNCHANGED <<peer, wire, axp>>

GuestWriteMBR(V) ==
    /\ \E value \in V : spi_write(SUN6I_BURST_CNT_REG, value, <<>>)
    /\ UNCHANGED <<nplain, peer, wire, axp>>

GuestWriteTCR(V, W) ==
    /\ \E value \in V, replies \in Replies(s, W) :
          spi_write(SUN6I_TFR_CTL_REG, value, replies)
    /\ UNCHANGED <<nplain, peer, wire, axp>>

GuestBurstWhenFull(V, W) ==
    /\ fifo32_is_full(s.tx_fifo)
    /\ GuestWriteTCR(V, W)

GuestWriteFCR ==
    /\ \E value \in FcrValues : spi_write(SUN6I_FIFO_CTL_REG, value, <<>>)
    /\ UNCHANGED <<nplain, peer, wire, axp>>

GuestWriteTXD(W) ==
    /\ \E value \in W : spi_write(SUN6I_TXDATA_REG, value, <<>>)
    /\ UNCHANGED <<nplain, peer, wire, axp>>

GuestWriteReadOnly ==
    /\ \E addr \in {SUN6I_RXDATA_REG, SUN6I_FIFO_STA_REG}, value \in OneWord :
          spi_write(addr, value, <<>>)
    /\ UNCHANGED <<nplain, peer, wire, axp>>

GuestWriteBad ==
    /\ \E addr \in BadOffsets, value \in OneWord : spi_write(addr, value, <<>>)
    /\ UNCHANGED <<nplain, peer, wire, axp>>

GuestReadStored(A) ==
    /\ \E addr \in A : spi_read(addr)
    /\ UNCHANGED <<nplain, peer, wire, axp>>

GuestReadFSR ==
    /\ spi_read(SUN6I_FIFO_STA_REG)
    /\ UNCHANGED <<nplain, peer, wire, axp>>

GuestReadRXD ==
    /\ spi_read(SUN6I_RXDATA_REG)
    /\ UNCHANGED <<nplain, peer, wire, axp>>

GuestReadTXD ==
    /\ spi_read(SUN6I_TXDATA_REG)
    /\ UNCHANGED <<nplain, peer, wire, axp>>

GuestReadBad ==
    /\ \E addr \in BadOffsets : spi_read(addr)
    /\ UNCHANGED <<nplain, peer, wire, axp>>

DeviceReset ==
    /\ allwinner_sun6i_spi_reset
    /\ UNCHANGED <<nplain, peer, wire, axp>>

Migrate ==
    /\ vmstate_save_load
    /\ UNCHANGED <<nplain, peer, wire, axp>>

NoPeer == <<>>

NoWire == [accepted |-> <<>>, delivered |-> <<>>, writes |-> 0]

NoAxp == <<>>

Realized(D) ==
    /\ \E fifo_size \in D : s = allwinner_sun6i_spi_realize(fifo_size)
    /\ last = Call("realize", 0, Zero, Zero, XferStart(s))
    /\ nplain = 0
    /\ peer = NoPeer
    /\ wire = NoWire
    /\ axp = NoAxp

(***************************************************************************)
(* Spec: the FIFOs, the transfer engine and the control registers under    *)
(* every interleaving of guest accesses and resets.                        *)
(***************************************************************************)
Init == Realized(ReducedDepths)

Next ==
    \/ GuestWriteMBR(MbrValues)
    \/ GuestWriteTCR(TcrValues, Words)
    \/ GuestWriteFCR
    \/ GuestWriteTXD(Words)
    \/ GuestWriteReadOnly
    \/ GuestWriteBad
    \/ GuestReadStored(ControlRegs)
    \/ GuestReadFSR
    \/ GuestReadRXD
    \/ GuestReadTXD
    \/ GuestReadBad
    \/ DeviceReset

Spec == Init /\ [][Next]_vars

(***************************************************************************)
(* SpecRegs: the register file. The guest writes and reads every stored    *)
(* register; the FIFOs carry a single word value.                          *)
(***************************************************************************)
NextRegs ==
    \/ GuestWritePlain
    \/ GuestWriteMBR({Bits(1)})
    \/ GuestWriteTCR(TcrStart, OneWord)
    \/ GuestWriteTXD(OneWord)
    \/ GuestReadStored(StoredRegs)
    \/ GuestReadFSR
    \/ GuestReadRXD
    \/ DeviceReset

SpecRegs == Init /\ [][NextRegs]_vars

(***************************************************************************)
(* SpecWide: the FIFO depths of the two chip variants. The guest queues a  *)
(* single word value, starts a burst once the transmit FIFO is full, and   *)
(* drains the receive FIFO.                                                *)
(***************************************************************************)
InitWide == Realized(FifoDepths)

NextWide ==
    \/ GuestWriteMBR({Bits(1)})
    \/ GuestBurstWhenFull(TcrStart, OneWord)
    \/ GuestWriteTXD(OneWord)
    \/ GuestReadFSR
    \/ GuestReadRXD

SpecWide == InitWide /\ [][NextWide]_vars

(***************************************************************************)
(* SpecBurst: the transfer engine under burst-count values below, at and   *)
(* above the FIFO depth, with and without the bits above the 24-bit field. *)
(***************************************************************************)
AnyMbrValues ==
    MbrValues \cup {Bits(LargeDepth + 1), (24..31) \cup Bits(LargeDepth + 2)}

NextBurst ==
    \/ GuestWriteMBR(AnyMbrValues)
    \/ GuestReadStored({SUN6I_BURST_CNT_REG})
    \/ GuestWriteTCR(TcrValues, Words)
    \/ GuestWriteTXD(Words)
    \/ GuestReadRXD

SpecBurst == Init /\ [][NextBurst]_vars

(***************************************************************************)
(* SpecSnap: the register file and the FIFOs with a save and restore at    *)
(* any point.                                                              *)
(***************************************************************************)
NextSnap ==
    \/ GuestWritePlain
    \/ GuestWriteMBR({Bits(1)})
    \/ GuestWriteTCR(TcrStart, OneWord)
    \/ GuestWriteFCR
    \/ GuestWriteTXD(OneWord)
    \/ GuestReadRXD
    \/ DeviceReset
    \/ Migrate

SpecSnap == Init /\ [][NextSnap]_vars

(***************************************************************************)
(* SpecTwo: two controller instances, A (the variable s) and B (peer.dev). *)
(* Every handler receives the instance it serves as its opaque argument.   *)
(* peer.solo[i] is instance i as its own calls alone would have left it:   *)
(* each call is also applied there, to the instance it was addressed to.   *)
(* peer.opaque is the instance the last call was addressed to.             *)
(***************************************************************************)
Instances == {"A", "B"}

Devs == [A |-> s, B |-> peer.dev]

Installed(d, solo, opaque) ==
    /\ s' = d.A
    /\ peer' = [dev |-> d.B, solo |-> solo, opaque |-> opaque]
    /\ UNCHANGED <<nplain, wire, axp>>

AW_SPI_SUN6I_static(opaque) == "A"

AW_SPI_SUN6I(opaque) == opaque

spi_write_at(opaque, addr, value, replies) ==
    LET i == AW_SPI_SUN6I(opaque)
        x == spi_write_switch(Devs[i], addr, value, replies)
        y == spi_write_switch(peer.solo[opaque], addr, value, replies)
    IN  /\ Installed([Devs EXCEPT ![i] = x.s],
                     [peer.solo EXCEPT ![opaque] = y.s], opaque)
        /\ last' = Call("write", addr, value, Zero, x)

spi_read_at(opaque, addr) ==
    LET i == AW_SPI_SUN6I(opaque)
    IN  /\ Installed([Devs EXCEPT ![i] = spi_read_state(@, addr)],
                     [peer.solo EXCEPT ![opaque] = spi_read_state(@, addr)],
                     opaque)
        /\ last' = Call("read", addr, Zero, spi_read_ret(Devs[i], addr),
                        XferStart(Devs[i]))

allwinner_sun6i_spi_reset_at(opaque) ==
    LET i == AW_SPI_SUN6I(opaque)
    IN  /\ Installed([Devs EXCEPT ![i] = spi_reset_state(@)],
                     [peer.solo EXCEPT ![opaque] = spi_reset_state(@)],
                     opaque)
        /\ last' = Call("reset", 0, Zero, Zero, XferStart(Devs[i]))

TwoReplies == [1..LargeDepth -> OneWord]

TwoWriteMBR ==
    \E opaque \in Instances, value \in {Bits(1), Bits(LargeDepth)} :
        spi_write_at(opaque, SUN6I_BURST_CNT_REG, value, <<>>)

WordOf == [A |-> Bits(\H11), B |-> Bits(\H22)]

TwoWriteTXD ==
    \E opaque \in Instances :
        spi_write_at(opaque, SUN6I_TXDATA_REG, WordOf[opaque], <<>>)

TwoWriteTCR ==
    \E opaque \in Instances, value \in TcrStart, replies \in TwoReplies :
        spi_write_at(opaque, SUN6I_TFR_CTL_REG, value, replies)

TwoReadRXD == \E opaque \in Instances : spi_read_at(opaque, SUN6I_RXDATA_REG)

TwoReset == \E opaque \in Instances : allwinner_sun6i_spi_reset_at(opaque)

InitTwo ==
    /\ \E fa \in {LargeDepth}, fb \in ReducedDepths :
          /\ s = allwinner_sun6i_spi_realize(fa)
          /\ peer = [dev |-> allwinner_sun6i_spi_realize(fb),
                     solo |-> [A |-> allwinner_sun6i_spi_realize(fa),
                               B |-> allwinner_sun6i_spi_realize(fb)],
                     opaque |-> "A"]
    /\ last = Call("realize", 0, Zero, Zero, XferStart(s))
    /\ nplain = 0
    /\ wire = NoWire
    /\ axp = NoAxp

NextTwo ==
    \/ TwoWriteMBR
    \/ TwoWriteTXD
    \/ TwoWriteTCR
    \/ TwoReadRXD
    \/ TwoReset

SpecTwo == InitTwo /\ [][NextTwo]_vars

(***************************************************************************)
(* SpecOrder: the path of a data word from the transmit-data register to   *)
(* the peripheral. wire.accepted is the sequence of words transmit-data    *)
(* writes queued (a write to a full transmit FIFO queues nothing) less the *)
(* words that were still waiting when the guest asked for a transmit-FIFO  *)
(* reset or the device was reset; wire.delivered is the sequence of words  *)
(* handed to ssi_transfer; wire.writes counts the transmit-data writes.    *)
(***************************************************************************)
Discard(w) == [w EXCEPT !.accepted = SubSeq(@, 1, Len(w.delivered))]

OrderWriteTXD ==
    /\ wire.writes < MaxHistory
    /\ \E value \in Words :
          /\ spi_write(SUN6I_TXDATA_REG, value, <<>>)
          /\ wire' = [wire EXCEPT
                        !.accepted = IF fifo32_is_full(s.tx_fifo)
                                     THEN @ ELSE Append(@, value),
                        !.writes = @ + 1]
    /\ UNCHANGED <<nplain, peer, axp>>

OrderWriteTCR ==
    /\ \E value \in TcrValues, replies \in Replies(s, OneWord) :
          spi_write(SUN6I_TFR_CTL_REG, value, replies)
    /\ wire' = [wire EXCEPT !.delivered = @ \o last'.sent]
    /\ UNCHANGED <<nplain, peer, axp>>

OrderWriteFCR ==
    /\ \E value \in FcrValues :
          /\ spi_write(SUN6I_FIFO_CTL_REG, value, <<>>)
          /\ wire' = IF value \cap SUN6I_FIFO_CTL_TF_RST # {}
                     THEN Discard(wire) ELSE wire
    /\ UNCHANGED <<nplain, peer, axp>>

OrderReset ==
    /\ allwinner_sun6i_spi_reset
    /\ wire' = Discard(wire)
    /\ UNCHANGED <<nplain, peer, axp>>

NextOrder ==
    \/ GuestWriteMBR({Bits(1)})
    \/ OrderWriteTXD
    \/ OrderWriteTCR
    \/ OrderWriteFCR
    \/ OrderReset
    \/ GuestReadRXD

SpecOrder == Init /\ [][NextOrder]_vars

(***************************************************************************)
(* SpecAxp: the AXP221 power-management chip (hw/misc/axp221.c), an I2C    *)
(* slave with a register file of NR_REGS bytes, a register pointer and a   *)
(* byte counter. A uint8_t is a number in 0..255. axp.dev is the           *)
(* AXP221I2CState, axp.acc the most recent callback with the set of        *)
(* indexes it used on the register array (at most one) and the byte it     *)
(* returned, axp.steps the number of data bytes sent and received.         *)
(***************************************************************************)
NR_REGS == 255

NoIndex == {}

Uint8(n) == n % 256

axp221_reset_regs ==
    [i \in 0..(NR_REGS - 1) |->
        CASE i = \H00 -> \Hc2
          [] i = \H01 -> \H00
          [] i = \H03 -> \H06
          [] i = \H10 -> \Hbf
          [] i = \H13 -> \H01
          [] i = \H30 -> \H60
          [] i = \H31 -> \H03
          [] i = \H32 -> \H43
          [] i = \H33 -> \Hc6
          [] i = \H34 -> \H45
          [] i = \H35 -> \H0e
          [] i = \H36 -> \H5d
          [] i = \H37 -> \H08
          [] i = \H38 -> \Ha5
          [] i = \H39 -> \H1f
          [] i = \H3c -> \Hfc
          [] i = \H3d -> \H16
          [] i = \H80 -> \H80
          [] i = \H82 -> \He0
          [] i = \H84 -> \H32
          [] i = \H8f -> \H01
          [] i = \H90 -> \H07
          [] i = \H91 -> \H1f
          [] i = \H92 -> \H07
          [] i = \H93 -> \H1f
          [] i = \H40 -> \Hd8
          [] i = \H41 -> \Hff
          [] i = \H42 -> \H03
          [] i = \H43 -> \H03
          [] i = \Hb8 -> \Hc0
          [] i = \Hb9 -> \H64
          [] i = \He6 -> \Ha0
          [] OTHER -> 0]

axp221_reset_enter(st) == [regs |-> axp221_reset_regs, ptr |-> 0, count |-> 0]

axp221_event(st) == [st EXCEPT !.count = 0]

axp221_rx_index(st) == IF st.ptr < NR_REGS THEN {st.ptr} ELSE NoIndex

axp221_rx_ret(st) == IF st.ptr < NR_REGS THEN st.regs[st.ptr] ELSE \Hff

axp221_rx(st) ==
    IF st.ptr < NR_REGS THEN [st EXCEPT !.ptr = Uint8(@ + 1)] ELSE st

axp221_tx_index(st) == IF st.count = 0 THEN NoIndex ELSE {st.ptr}

(* The states axp221_tx can leave. regs[s->ptr++] = data with ptr = 0xff   *)
(* stores one byte past regs[NR_REGS], where the struct keeps ptr: the     *)
(* array is untouched and ptr ends as the stored byte or as the wrapped    *)
(* increment, whichever the build writes last.                             *)
axp221_tx(st, data) ==
    IF st.count = 0
    THEN {[st EXCEPT !.ptr = data, !.count = Uint8(@ + 1)]}
    ELSE IF st.ptr < NR_REGS
         THEN {[st EXCEPT !.regs[st.ptr] = data, !.ptr = Uint8(@ + 1)]}
         ELSE {[st EXCEPT !.ptr = data], [st EXCEPT !.ptr = Uint8(@ + 1)]}

AxpCall(op, index, ret) == [op |-> op, index |-> index, ret |-> ret]

(* The register addresses and the data bytes the I2C master sends.         *)
AxpAddresses == {\H03, \Hfd, \Hff}

AxpData == {\H5a}

AxpSelect ==
    /\ axp.dev.count = 0
    /\ \E data \in AxpAddresses : \E d \in axp221_tx(axp.dev, data) :
          axp' = [axp EXCEPT !.dev = d,
                             !.acc = AxpCall("select", axp221_tx_index(axp.dev), 0)]
    /\ UNCHANGED <<s, last, nplain, peer, wire>>

AxpSend ==
    /\ axp.dev.count # 0
    /\ axp.steps < MaxAxpSteps
    /\ \E data \in AxpData : \E d \in axp221_tx(axp.dev, data) :
          axp' = [dev |-> d,
                  acc |-> AxpCall("tx", axp221_tx_index(axp.dev), 0),
                  steps |-> axp.steps + 1]
    /\ UNCHANGED <<s, last, nplain, peer, wire>>

AxpRecv ==
    /\ axp.steps < MaxAxpSteps
    /\ axp' = [dev |-> axp221_rx(axp.dev),
               acc |-> AxpCall("rx", axp221_rx_index(axp.dev),
                               axp221_rx_ret(axp.dev)),
               steps |-> axp.steps + 1]
    /\ UNCHANGED <<s, last, nplain, peer, wire>>

AxpEvent ==
    /\ axp' = [axp EXCEPT !.dev = axp221_event(@),
                          !.acc = AxpCall("event", NoIndex, 0)]
    /\ UNCHANGED <<s, last, nplain, peer, wire>>

AxpReset ==
    /\ axp' = [axp EXCEPT !.dev = axp221_reset_enter(@),
                          !.acc = AxpCall("reset", NoIndex, 0)]
    /\ UNCHANGED <<s, last, nplain, peer, wire>>

InitAxp ==
    /\ s = allwinner_sun6i_spi_realize(LargeDepth)
    /\ last = Call("realize", 0, Zero, Zero, XferStart(s))
    /\ nplain = 0
    /\ peer = NoPeer
    /\ wire = NoWire
    /\ axp = [dev |-> axp221_reset_enter([regs |-> [i \in 0..(NR_REGS - 1) |-> 0],
                                          ptr |-> 0, count |-> 0]),
              acc |-> AxpCall("reset", NoIndex, 0),
              steps |-> 0]

NextAxp ==
    \/ AxpSelect
    \/ AxpSend
    \/ AxpRecv
    \/ AxpEvent
    \/ AxpReset

SpecAxp == InitAxp /\ [][NextAxp]_vars

(***************************************************************************)
(* Properties.                                                             *)
(***************************************************************************)
TxData == s.tx_fifo.data

RxData == s.rx_fifo.data

IsWrite(c, addr) == c.op = "write" /\ c.addr = addr

IsRead(c, addr) == c.op = "read" /\ c.addr = addr

StartsBurst(c) == IsWrite(c, SUN6I_TFR_CTL_REG) /\ 31 \in c.value

Stored(st, addr) ==
    CASE addr = SUN6I_GBL_CTL_REG -> st.gcr
      [] addr = SUN6I_TFR_CTL_REG -> st.tcr
      [] addr = SUN6I_INT_CTL_REG -> st.ier
      [] addr = SUN6I_INT_STA_REG -> st.isr
      [] addr = SUN6I_FIFO_CTL_REG -> st.fcr
      [] addr = SUN6I_WAIT_CLK_REG -> st.wcr
      [] addr = SUN6I_CLK_CTL_REG -> st.ccr
      [] addr = SUN6I_BURST_CNT_REG -> st.mbr
      [] addr = SUN6I_XMIT_CNT_REG -> st.mtc
      [] addr = SUN6I_BURST_CTL_CNT_REG -> st.bcc
      [] addr = SUN6I_NDMA_MODE_CTL -> st.ndma_mode_ctl

\* The requested burst length: burst-count masked to its low 24 bits.
Requested(st) == ToNat(st.mbr \cap (0..23))

\* C1: in every reachable state the transmit FIFO and the receive FIFO each
\* hold at most fifo_size words.
C1_FifoWithinCapacity ==
    /\ Len(TxData) <= s.fifo_size
    /\ Len(RxData) <= s.fifo_size

\* A burst of fifo_size words has just met a receive FIFO that was not
\* empty: the receive FIFO is full and some replies were dropped.
C1_Witness ==
    /\ StartsBurst(last)
    /\ s.fifo_size = LargeDepth
    /\ Len(last.rcvd) = s.fifo_size
    /\ Len(RxData) = s.fifo_size
    /\ RxData # last.rcvd

\* C2: a write to transmit-data while the transmit FIFO is full changes
\* nothing: the word is dropped and the FIFO keeps its words in order.
C2_TxWriteWhenFullIsNoOp ==
    [][(fifo32_is_full(s.tx_fifo) /\ IsWrite(last', SUN6I_TXDATA_REG))
          => s' = s]_vars

\* The transmit FIFO is full and the word just written is not its newest.
C2_Witness ==
    /\ IsWrite(last, SUN6I_TXDATA_REG)
    /\ s.fifo_size = LargeDepth
    /\ Len(TxData) = s.fifo_size
    /\ TxData[1] # TxData[2]
    /\ TxData[Len(TxData)] # last.value

\* C3 (as claimed): after a device reset every register holds its documented
\* reset value, the five registers without one hold 0, and both FIFOs are
\* empty.
C3_ResetRestoresEveryRegister ==
    last.op = "reset" =>
        /\ s.gcr = Bits(\H80)
        /\ s.tcr = Bits(\H87)
        /\ s.isr = Bits(\H32)
        /\ s.fcr = Bits(\H00400001)
        /\ s.ccr = Bits(\H02)
        /\ s.ndma_mode_ctl = Bits(\Ha5)
        /\ s.ier = {} /\ s.wcr = {} /\ s.mbr = {} /\ s.mtc = {} /\ s.bcc = {}
        /\ TxData = <<>> /\ RxData = <<>>

\* C4: a burst started with burst-count = N = the number of queued words
\* (N >= 1) and N free receive slots exchanges the queued words in order,
\* appends the N replies to the receive FIFO in order, empties the transmit
\* FIFO and stores transfer-control with bit 31 clear.
C4_MatchedBurst ==
    [][(/\ StartsBurst(last')
        /\ Requested(s) = Len(TxData)
        /\ Len(TxData) >= 1
        /\ Len(RxData) + Len(TxData) <= s.fifo_size)
          => (/\ last'.sent = TxData
              /\ Len(last'.rcvd) = Len(TxData)
              /\ s'.rx_fifo.data = RxData \o last'.rcvd
              /\ s'.tx_fifo.data = <<>>
              /\ 31 \notin s'.tcr
              /\ (last'.rcvd = last'.sent /\ RxData = <<>>
                     => s'.rx_fifo.data = TxData))]_vars

\* An echoing peripheral has answered a matched burst of two different
\* words into an empty receive FIFO.
C4_Witness ==
    /\ StartsBurst(last)
    /\ Requested(s) = LargeDepth
    /\ Len(last.sent) = LargeDepth
    /\ last.sent[1] # last.sent[2]
    /\ last.rcvd = last.sent
    /\ RxData = last.sent
    /\ TxData = <<>>

\* C5: a burst started with a non-zero burst-count that differs from the
\* number K of queued words exchanges exactly the K queued words, in order,
\* and removes exactly those from the transmit FIFO.
C5_MismatchedBurst ==
    [][(/\ StartsBurst(last')
        /\ Requested(s) # 0
        /\ Requested(s) # Len(TxData))
          => (/\ last'.sent = TxData
              /\ s'.tx_fifo.data = <<>>)]_vars

\* A burst that asked for two words found one queued and exchanged one.
C5_Witness ==
    /\ StartsBurst(last)
    /\ Requested(s) = 2
    /\ Len(last.sent) = 1
    /\ last.sent[1] # Zero
    /\ TxData = <<>>

\* C6: the stored transfer-control never has bit 31 set, and a write of v to
\* transfer-control stores v with bit 31 cleared and every other bit kept.
C6_StartBitAutoClear ==
    /\ [](31 \notin s.tcr)
    /\ [][IsWrite(last', SUN6I_TFR_CTL_REG)
             => (/\ 31 \notin s'.tcr
                 /\ s'.tcr \cup {31} = last'.value \cup {31})]_vars

\* A write with bit 31 set ran a burst and left the other bits stored.
C6_Witness ==
    /\ StartsBurst(last)
    /\ Len(last.sent) >= 1
    /\ s.tcr = last.value \ {31}
    /\ s.tcr # {}

\* C7: a read of fifo-status returns the receive occupancy in bits 7..0 and
\* the transmit occupancy in bits 23..16, every other bit 0.
C7_FifoStatusFields ==
    IsRead(last, SUN6I_FIFO_STA_REG) =>
        /\ ToNat(last.ret \cap SUN6I_FIFO_STA_RF_CNT_MASK) = Len(RxData)
        /\ ToNat(last.ret \cap SUN6I_FIFO_STA_TF_CNT_MASK) = Len(TxData) * 65536
        /\ last.ret \subseteq
              (SUN6I_FIFO_STA_RF_CNT_MASK \cup SUN6I_FIFO_STA_TF_CNT_MASK)

\* fifo-status read with 128 words queued for transmission, none received.
C7_Witness ==
    /\ IsRead(last, SUN6I_FIFO_STA_REG)
    /\ s.fifo_size = 128
    /\ Len(TxData) = 128
    /\ Len(RxData) = 0
    /\ last.ret = {23}

\* C8: a write to fifo-control with bit 31 set and bit 15 clear empties the
\* transmit FIFO, leaves the receive FIFO alone and stores the value with
\* only bit 31 cleared.
C8_TxFifoReset ==
    [][(/\ IsWrite(last', SUN6I_FIFO_CTL_REG)
        /\ 31 \in last'.value
        /\ 15 \notin last'.value)
          => s' = [s EXCEPT !.tx_fifo.data = <<>>,
                            !.fcr = last'.value \ {31}]]_vars

\* The transmit FIFO was just reset while the receive FIFO holds words.
C8_Witness ==
    /\ IsWrite(last, SUN6I_FIFO_CTL_REG)
    /\ 31 \in last.value
    /\ 15 \notin last.value
    /\ Len(RxData) = LargeDepth
    /\ TxData = <<>>
    /\ s.fcr = last.value \ {31}
    /\ s.fcr # {}

\* C9: a read of receive-data returns and removes the oldest received word,
\* or returns 0 from an empty receive FIFO; nothing else changes.
C9_RxDataRead ==
    [][IsRead(last', SUN6I_RXDATA_REG)
          => IF RxData # <<>>
             THEN /\ last'.ret = Head(RxData)
                  /\ s' = [s EXCEPT !.rx_fifo.data = Tail(RxData)]
             ELSE /\ last'.ret = Zero
                  /\ s' = s]_vars

\* A word was just read out of a receive FIFO that held two different words.
C9_Witness ==
    /\ IsRead(last, SUN6I_RXDATA_REG)
    /\ Len(RxData) = 1
    /\ last.ret \in Words
    /\ RxData[1] \in Words
    /\ last.ret # RxData[1]
    /\ TxData # <<>>

\* C10: a write of v to a plainly stored register makes a read of the same
\* offset return v and changes no other register and neither FIFO.
C10_PlainWrite ==
    [][(last'.op = "write" /\ last'.addr \in PlainRegs)
          => (/\ Stored(s', last'.addr) = last'.value
              /\ spi_read_ret(s', last'.addr) = last'.value
              /\ \A a \in StoredRegs \ {last'.addr} : Stored(s', a) = Stored(s, a)
              /\ s'.tx_fifo = s.tx_fifo
              /\ s'.rx_fifo = s.rx_fifo
              /\ s'.fifo_size = s.fifo_size)]_vars

\* transmit-count was just written while both FIFOs hold words.
C10_Witness ==
    /\ IsWrite(last, SUN6I_XMIT_CNT_REG)
    /\ s.mtc = last.value
    /\ s.mtc # {}
    /\ s.bcc = {}
    /\ TxData # <<>>
    /\ RxData # <<>>

\* The fourteen register offsets of the register table.
ListedRegs == StoredRegs \cup {SUN6I_FIFO_STA_REG, SUN6I_TXDATA_REG, SUN6I_RXDATA_REG}

\* C11: a write to receive-data, to fifo-status or to an offset outside the
\* fourteen listed ones changes no register and neither FIFO and exchanges
\* nothing with the peripheral.
C11_IgnoredWrite ==
    [][(/\ last'.op = "write"
        /\ \/ last'.addr \in {SUN6I_RXDATA_REG, SUN6I_FIFO_STA_REG}
           \/ last'.addr \notin ListedRegs)
          => (/\ s' = s
              /\ last'.sent = <<>>
              /\ last'.rcvd = <<>>)]_vars

\* receive-data was just written while the receive FIFO has room and both
\* FIFOs hold words.
C11_Witness ==
    /\ IsWrite(last, SUN6I_RXDATA_REG)
    /\ last.value # Zero
    /\ s.fifo_size = LargeDepth
    /\ Len(RxData) = 1
    /\ Len(TxData) = 1

\* C12: a read of transmit-data or of an offset outside the fourteen listed
\* ones returns 0 and changes no register and neither FIFO.
C12_IgnoredRead ==
    [][(/\ last'.op = "read"
        /\ \/ last'.addr = SUN6I_TXDATA_REG
           \/ last'.addr \notin ListedRegs)
          => (/\ last'.ret = Zero
              /\ s' = s)]_vars

\* transmit-data was just read while the transmit FIFO holds two words.
C12_Witness ==
    /\ IsRead(last, SUN6I_TXDATA_REG)
    /\ last.ret = Zero
    /\ Len(TxData) = LargeDepth
    /\ TxData[1] # Zero

\* C13 (as claimed): a write to transfer-control with bit 31 set while the
\* masked burst-count is 0 changes nothing at all, transfer-control included.
C13_ZeroBurstChangesNothing ==
    [][(StartsBurst(last') /\ Requested(s) = 0)
          => (/\ s' = s
              /\ last'.sent = <<>>)]_vars

\* C13 (amended): such a write exchanges nothing and changes neither FIFO
\* and no stored register other than transfer-control, which stores the
\* written value with bit 31 cleared.
C13_ZeroBurstStoresTcrOnly ==
    [][(StartsBurst(last') /\ Requested(s) = 0)
          => (/\ s' = [s EXCEPT !.tcr = last'.value \ {31}]
              /\ last'.sent = <<>>
              /\ last'.rcvd = <<>>)]_vars

\* A burst was started with burst-count 0x1000000 (0 in its low 24 bits)
\* while words were queued: they are still queued.
C13_Witness ==
    /\ StartsBurst(last)
    /\ s.mbr = BIT(24)
    /\ Requested(s) = 0
    /\ last.sent = <<>>
    /\ Len(TxData) = LargeDepth
    /\ s.tcr = last.value \ {31}
    /\ s.tcr # {}

\* The number of words a step removed from the transmit FIFO.
Removed == Len(TxData) - Len(s'.tx_fifo.data)

\* The free slots of the receive FIFO.
RxFree == s.fifo_size - Len(RxData)

\* C14 (as claimed): after a write to transfer-control with bit 31 set,
\* either the n words removed from the transmit FIFO are matched by exactly
\* n replies appended to the receive FIFO, or neither FIFO was changed.
C14_AllOrNothing ==
    [][StartsBurst(last')
          => \/ /\ Len(last'.rcvd) = Removed
                /\ s'.rx_fifo.data = RxData \o last'.rcvd
             \/ /\ s'.tx_fifo = s.tx_fifo
                /\ s'.rx_fifo = s.rx_fifo]_vars

\* C14 (amended): the n words removed from the transmit FIFO were each
\* exchanged, in order, and the receive FIFO gained the first
\* min(n, free receive slots) of the n replies, in order: all n when it had
\* room for them, the later ones dropped otherwise. With n = 0 neither FIFO
\* was changed.
C14_RepliesUpToFreeSlots ==
    [][StartsBurst(last')
          => LET n == Removed
                 k == IF n <= RxFree THEN n ELSE RxFree
             IN  /\ n >= 0
                 /\ last'.sent = SubSeq(TxData, 1, n)
                 /\ s'.tx_fifo.data = SubSeq(TxData, n + 1, Len(TxData))
                 /\ Len(last'.rcvd) = n
                 /\ s'.rx_fifo.data = RxData \o SubSeq(last'.rcvd, 1, k)
                 /\ s'.rx_fifo.capacity = s.rx_fifo.capacity
                 /\ s'.tx_fifo.capacity = s.tx_fifo.capacity]_vars

\* A burst of two words met a receive FIFO with one free slot: the first
\* reply was stored behind the older word, the second (a different word)
\* was dropped.
C14_Witness ==
    /\ StartsBurst(last)
    /\ Len(last.sent) = 2
    /\ Len(last.rcvd) = 2
    /\ last.rcvd[1] # last.rcvd[2]
    /\ Len(RxData) = 2
    /\ RxData[2] = last.rcvd[1]
    /\ RxData[1] # RxData[2]
    /\ TxData = <<>>

\* C15: a burst is complete when the write that started it returns: bit 31
\* is stored clear and, unless the masked burst-count is 0, every queued
\* word has been exchanged; the number of exchanges of one burst is at most
\* the FIFO capacity, whatever the burst-count.
C15_BurstBounded ==
    [][StartsBurst(last')
          => (/\ Len(last'.sent) <= s.fifo_size
              /\ Len(last'.rcvd) = Len(last'.sent)
              /\ 31 \notin s'.tcr
              /\ (Requested(s) # 0 => /\ Len(last'.sent) = Len(TxData)
                                      /\ s'.tx_fifo.data = <<>>))]_vars

\* A burst asked for more words than the FIFO can hold, with bits 24..31
\* of burst-count set, and exchanged the full FIFO.
C15_Witness ==
    /\ StartsBurst(last)
    /\ (24..31) \subseteq s.mbr
    /\ Requested(s) > s.fifo_size
    /\ s.fifo_size = LargeDepth
    /\ Len(last.sent) = s.fifo_size
    /\ TxData = <<>>

\* C16: device reset is idempotent: in the state a reset leaves, a second
\* reset changes no register and neither FIFO.
C16_ResetIdempotent ==
    last.op = "reset" => spi_reset_state(s) = s

\* A reset has just run on a device whose burst-count and one more register
\* without a reset value had been written, and whose FIFOs it emptied.
C16_Witness ==
    /\ last.op = "reset"
    /\ s.mbr # {}
    /\ \E a \in PlainRegs \ {SUN6I_BURST_CNT_REG} :
           Stored(s, a) \in PlainValues
    /\ s.tcr = ResetTcr
    /\ TxData = <<>>
    /\ RxData = <<>>

\* C17: the snapshot holds both FIFOs in order and every stored register:
\* the instance restored from it is in the same state as the one saved, so
\* every later access finds what it would have found in the original.
C17_SnapshotRestoresState ==
    [][last'.op = "migrate" => s' = s]_vars

\* A device restored from a snapshot taken with words in both FIFOs and
\* written values in dma-mode-control, burst-count, transfer-control and
\* fifo-control.
C17_Witness ==
    /\ last.op = "migrate"
    /\ s.fifo_size = LargeDepth
    /\ Len(TxData) = 1
    /\ Len(RxData) = 2
    /\ s.ndma_mode_ctl \in PlainValues
    /\ s.mbr # {}
    /\ s.tcr \notin {{}, ResetTcr}
    /\ s.fcr \notin {{}, ResetFcr}

\* C18: under every interleaving of calls addressed to instance A and to
\* instance B, each instance is in the state its own calls alone would have
\* left it in, and a call addressed to one instance leaves the other as it
\* was.
C18_InstancesIndependent ==
    /\ [](Devs = peer.solo)
    /\ [][(peer'.opaque = "A" => peer'.dev = peer.dev)
          /\ (peer'.opaque = "B" => s' = s)]_vars

\* A burst has just run on B while A, of the other depth, holds queued and
\* received words of its own and a different burst-count.
C18_Witness ==
    /\ peer # NoPeer
    /\ peer.opaque = "B"
    /\ StartsBurst(last)
    /\ Len(last.sent) = 1
    /\ s.fifo_size = LargeDepth
    /\ peer.dev.fifo_size = SmallDepth
    /\ Len(TxData) = LargeDepth
    /\ Len(RxData) = 1
    /\ s.mbr # peer.dev.mbr
    /\ peer.dev.tx_fifo.data = <<>>
    /\ Len(peer.dev.rx_fifo.data) = 1

\* C19 (as claimed): in every reachable state the stored fifo-control has
\* bit 31 and bit 15 clear, and a read of fifo-control returns neither bit.
C19_FcrResetBitsClear ==
    /\ s.fcr \cap (SUN6I_FIFO_CTL_TF_RST \cup SUN6I_FIFO_CTL_RF_RST) = {}
    /\ IsRead(last, SUN6I_FIFO_CTL_REG)
          => last.ret \cap (SUN6I_FIFO_CTL_TF_RST \cup SUN6I_FIFO_CTL_RF_RST) = {}

\* C20: a write to fifo-control with bit 31 and bit 15 both set empties the
\* transmit FIFO and leaves the receive FIFO with all its words in order.
C20_BothResetBitsTxOnly ==
    [][(/\ IsWrite(last', SUN6I_FIFO_CTL_REG)
        /\ 31 \in last'.value
        /\ 15 \in last'.value)
          => (/\ s'.tx_fifo.data = <<>>
              /\ s'.tx_fifo.capacity = s.tx_fifo.capacity
              /\ s'.rx_fifo = s.rx_fifo)]_vars

\* fifo-control was just written with both reset bits while the receive
\* FIFO held two different words: they are still there.
C20_Witness ==
    /\ IsWrite(last, SUN6I_FIFO_CTL_REG)
    /\ 31 \in last.value
    /\ 15 \in last.value
    /\ Len(RxData) = LargeDepth
    /\ RxData[1] # RxData[2]
    /\ TxData = <<>>

\* C21: a write to fifo-control with bit 15 set and bit 31 clear empties the
\* receive FIFO, leaves the transmit FIFO alone and stores the value with
\* only bit 15 cleared.
C21_RxFifoReset ==
    [][(/\ IsWrite(last', SUN6I_FIFO_CTL_REG)
        /\ 15 \in last'.value
        /\ 31 \notin last'.value)
          => (/\ s'.rx_fifo = [s.rx_fifo EXCEPT !.data = <<>>]
              /\ s'.tx_fifo = s.tx_fifo
              /\ s'.fcr = last'.value \ {15}
              /\ s'.fcr \cup {15} = last'.value)]_vars

\* The receive FIFO was just reset while the transmit FIFO holds two
\* different words, and the other bits written are stored.
C21_Witness ==
    /\ IsWrite(last, SUN6I_FIFO_CTL_REG)
    /\ 15 \in last.value
    /\ 31 \notin last.value
    /\ RxData = <<>>
    /\ Len(TxData) = LargeDepth
    /\ TxData[1] # TxData[2]
    /\ s.fcr = Bits(\H10001)

\* C22: in a burst that finds the receive FIFO full when a reply arrives,
\* the reply is dropped and the receive FIFO keeps the words it held, in
\* order; every queued word is still popped and exchanged, those after the
\* dropped reply included.
C22_ReplyDroppedWhenRxFull ==
    [][(/\ StartsBurst(last')
        /\ Requested(s) # 0
        /\ Len(TxData) > RxFree)
          => (/\ last'.sent = TxData
              /\ Len(last'.rcvd) = Len(TxData)
              /\ s'.tx_fifo.data = <<>>
              /\ Len(s'.rx_fifo.data) = s.fifo_size
              /\ SubSeq(s'.rx_fifo.data, 1, Len(RxData)) = RxData
              /\ (RxFree = 0 => s'.rx_fifo = s.rx_fifo))]_vars

\* A burst of two words got two replies and the full receive FIFO still
\* holds two different words that are not those two replies in order.
C22_Witness ==
    /\ StartsBurst(last)
    /\ Len(last.sent) = LargeDepth
    /\ Len(last.rcvd) = LargeDepth
    /\ Len(RxData) = LargeDepth
    /\ RxData[1] # RxData[2]
    /\ last.rcvd[1] = RxData[2]
    /\ last.rcvd[2] = RxData[1]
    /\ TxData = <<>>

\* C23 (as claimed): one burst never exchanges more words than the requested
\* burst length, burst-count masked to 24 bits.
C23_NeverMoreThanRequested ==
    [][StartsBurst(last') => Len(last'.sent) <= Requested(s)]_vars

\* C24: the transfer engine uses only bits 23..0 of burst-count: a burst
\* started while those are 0 and some of bits 31..24 are set exchanges
\* nothing and leaves both FIFOs as they were; burst-count itself stores and
\* reads back all 32 bits written.
C24_BurstCountLow24Bits ==
    /\ [][(/\ StartsBurst(last')
           /\ s.mbr \cap (24..31) # {}
           /\ s.mbr \cap (0..23) = {})
             => (/\ last'.sent = <<>>
                 /\ s'.tx_fifo = s.tx_fifo
                 /\ s'.rx_fifo = s.rx_fifo)]_vars
    /\ [][IsWrite(last', SUN6I_BURST_CNT_REG) => s'.mbr = last'.value]_vars
    /\ [](IsRead(last, SUN6I_BURST_CNT_REG) => last.ret = s.mbr)

\* burst-count reads back 0x1000000 after a burst was started with it
\* while two words were queued: they are still queued and nothing was
\* received.
C24_Witness ==
    /\ IsRead(last, SUN6I_BURST_CNT_REG)
    /\ last.ret = BIT(24)
    /\ s.tcr = Bits(\H83)
    /\ Len(TxData) = LargeDepth
    /\ RxData = <<>>

\* C25: a write to transfer-control with bit 31 set while the masked
\* burst-count is 0 exchanges nothing with the peripheral and leaves the
\* contents of both FIFOs as they were, whatever is queued.
C25_ZeroBurstKeepsFifos ==
    [][(StartsBurst(last') /\ Requested(s) = 0)
          => (/\ last'.sent = <<>>
              /\ last'.rcvd = <<>>
              /\ s'.tx_fifo = s.tx_fifo
              /\ s'.rx_fifo = s.rx_fifo)]_vars

\* A burst was started with burst-count 0 while two different words were
\* queued and a word was waiting in the receive FIFO.
C25_Witness ==
    /\ StartsBurst(last)
    /\ s.mbr = {}
    /\ last.sent = <<>>
    /\ Len(TxData) = LargeDepth
    /\ TxData[1] # TxData[2]
    /\ Len(RxData) = 1

\* C26: the substitute-zero path of the burst loop is never taken: no
\* iteration of the loop finds the transmit FIFO empty, so every word
\* exchanged was popped from the transmit FIFO.
C26_NeverStarved ==
    /\ last.starved = FALSE
    /\ StartsBurst(last) => Len(last.sent) <= s.fifo_size

\* A burst that asked for more words than were queued exchanged the queued
\* words and no substitute.
C26_Witness ==
    /\ StartsBurst(last)
    /\ Requested(s) = LargeDepth + 1
    /\ Len(last.sent) = LargeDepth
    /\ \A k \in 1..Len(last.sent) : last.sent[k] \in Words
    /\ ~last.starved
    /\ TxData = <<>>

\* C27: a read of a stored register or of fifo-status returns the current
\* value (for fifo-status the receive count in the low bits and the transmit
\* count from bit 16) and changes no register and neither FIFO.
C27_ReadHasNoSideEffect ==
    /\ [][(last'.op = "read" /\ last'.addr \in StoredRegs)
             => (/\ last'.ret = Stored(s, last'.addr)
                 /\ s' = s
                 /\ last'.sent = <<>>)]_vars
    /\ [][IsRead(last', SUN6I_FIFO_STA_REG)
             => (/\ last'.ret = Bits(Len(s.rx_fifo.data))
                                   \cup Shl(Bits(Len(s.tx_fifo.data)), 16)
                 /\ s' = s
                 /\ last'.sent = <<>>)]_vars

\* interrupt-status was just read and returned its non-zero value while both
\* FIFOs hold words.
C27_Witness ==
    /\ IsRead(last, SUN6I_INT_STA_REG)
    /\ last.ret = s.isr
    /\ s.isr # Zero
    /\ TxData # <<>>
    /\ RxData # <<>>

\* C29: a burst changes only the transmit FIFO, the receive FIFO and the
\* stored transfer-control value; the ten other stored registers and the
\* FIFO depth keep their values.
C29_BurstTouchesOnlyFifosAndTcr ==
    [][StartsBurst(last')
          => (/\ \A a \in StoredRegs \ {SUN6I_TFR_CTL_REG} :
                     Stored(s', a) = Stored(s, a)
              /\ s'.fifo_size = s.fifo_size
              /\ s'.tx_fifo.capacity = s.tx_fifo.capacity
              /\ s'.rx_fifo.capacity = s.rx_fifo.capacity)]_vars

\* A burst exchanged a word after the guest had written a plain register,
\* and the written value is still stored.
C29_Witness ==
    /\ StartsBurst(last)
    /\ Len(last.sent) = 1
    /\ Len(last.rcvd) = 1
    /\ s.mbr = Bits(1)
    /\ \E a \in PlainRegs : Stored(s, a) \in PlainValues

\* C28: the words handed to the peripheral are, in order, the words the
\* transmit-data register accepted less those a transmit-FIFO reset or a
\* device reset discarded: what was accepted and not discarded is what was
\* delivered followed by what still waits in the transmit FIFO.
C28_DeliveredInWriteOrder ==
    wire.accepted = wire.delivered \o TxData

\* Two different words were delivered in the order they were written, one
\* of the four written words was dropped or discarded, and a word waits.
C28_Witness ==
    /\ wire.writes = MaxHistory
    /\ Len(wire.delivered) = 2
    /\ wire.delivered[1] # wire.delivered[2]
    /\ Len(TxData) = 1
    /\ StartsBurst(last) \/ IsWrite(last, SUN6I_TXDATA_REG)

\* C30: every access of the AXP221 model to its register array uses an
\* index below NR_REGS, also for a data byte sent after register address
\* 0xff was selected or after the pointer counted up to 0xff.
C30_IndexBelowNrRegs ==
    \A i \in axp.acc.index : i < NR_REGS

====
